---- MODULE Spec2Model ----
(***************************************************************************)
(* Model of the mail-forwarding relay of src/main.py: the polling loop of  *)
(* main(), one cycle of apply_forwarding_rule() per authenticated account  *)
(* and the recursive body reconstruction of parse_email_body().            *)
(*                                                                         *)
(* The Mail Service API is the environment.  Every remote call either      *)
(* returns or raises googleapiclient's HttpError, the failure the code     *)
(* itself names; the mailbox (unread labels, message payloads) is server   *)
(* state.  Python exceptions are modelled by their class name.             *)
(***************************************************************************)
EXTENDS Integers, Sequences, FiniteSets, TLC

(***************************************************************************)
(* Bounds of the model.                                                    *)
(***************************************************************************)
\* last wall-clock minute the model lets the clock reach, counted from the
\* midnight before the start: 1440 is 00:00 of the next day
Horizon == 1440

\* most rule files a directory holds when the loader is checked on its own
MaxFiles == 2

(***************************************************************************)
(* The mailboxes of the Mail Service and the messages each one holds.      *)
(***************************************************************************)
Accounts == {"x", "y"}

Msgs == {"m1", "m2", "m3"}

MsgsOf(account) == IF account = "x" THEN {"m1", "m2"} ELSE {"m3"}

NoMsg == "None"

(***************************************************************************)
(* Wall clock: minutes since midnight, UTC (TIMEZONE).                     *)
(***************************************************************************)
hour(t) == (t \div 60) % 24

minute(t) == t % 60

\* the negated loop condition of main(): hour == 23 and minute >= 55
CutoffReached(t) == hour(t) = 23 /\ minute(t) >= 55

StartTimes == {1434, 1435}

(***************************************************************************)
(* base64.urlsafe_b64decode and bytes.decode("utf-8") on the payloads the  *)
(* model uses.  Bytes and text are sequences of numbers.                   *)
(***************************************************************************)
DecodeOk(v) == [exc |-> "none", val |-> v]

DecodeFail(e) == [exc |-> e, val |-> <<>>]

\* "aGVsbG8=" is hello; "aGVsbG8" lacks its padding (binascii.Error, a
\* ValueError); "_w==" is the byte 0xFF; "w6k=" is the two bytes of U+00E9;
\* "AAEC" is the bytes 0, 1, 2.
urlsafe_b64decode(s) ==
    CASE s = "aGVsbG8=" -> DecodeOk(<<104, 101, 108, 108, 111>>)
      [] s = "_w=="     -> DecodeOk(<<255>>)
      [] s = "w6k="     -> DecodeOk(<<195, 169>>)
      [] s = "AAEC"     -> DecodeOk(<<0, 1, 2>>)
      [] OTHER          -> DecodeFail("ValueError")

RECURSIVE utf8_decode_from(_, _, _)
utf8_decode_from(b, i, acc) ==
    IF i > Len(b) THEN DecodeOk(acc)
    ELSE IF b[i] < 128 THEN utf8_decode_from(b, i + 1, Append(acc, b[i]))
    ELSE IF /\ b[i] >= 194 /\ b[i] <= 223 /\ i + 1 <= Len(b)
            /\ b[i + 1] >= 128 /\ b[i + 1] <= 191
         THEN utf8_decode_from(b, i + 2,
                  Append(acc, (b[i] - 192) * 64 + (b[i + 1] - 128)))
    ELSE DecodeFail("ValueError")

utf8_decode(b) == utf8_decode_from(b, 1, <<>>)

(***************************************************************************)
(* MessagePart JSON objects as the Mail Service API returns them.          *)
(* hasData says whether body carries a 'data' key, hasParts whether the    *)
(* part carries a 'parts' key (message.get("parts") is None otherwise).    *)
(***************************************************************************)
Leaf(mt, st, fn, hasData, data, remote) ==
    [mime_type |-> mt, mime_subtype |-> st, filename |-> fn,
     hasData |-> hasData, data |-> data, remoteData |-> remote,
     attachmentId |-> IF hasData THEN "" ELSE "att-" \o fn,
     hasParts |-> FALSE, parts |-> <<>>]

Node(mt, st, hasParts, parts) ==
    [mime_type |-> mt, mime_subtype |-> st, filename |-> "",
     hasData |-> FALSE, data |-> "", remoteData |-> "",
     attachmentId |-> "",
     hasParts |-> hasParts, parts |-> parts]

TextHello == Leaf("text", "plain", "", TRUE, "aGVsbG8=", "")

TextBadPadding == Leaf("text", "plain", "", TRUE, "aGVsbG8", "")

TextBadUtf8 == Leaf("text", "html", "", TRUE, "_w==", "")

AttachInline == Leaf("application", "octet-stream", "f.bin", TRUE, "AAEC", "")

AttachRemote == Leaf("application", "pdf", "r.pdf", FALSE, "", "AAEC")

AttachRemote2 == Leaf("image", "png", "p.png", FALSE, "", "_w==")

TextUtf8 == Leaf("text", "html", "", TRUE, "w6k=", "")

\* a text part that carries a filename
TextNamed == Leaf("text", "plain", "note.txt", TRUE, "aGVsbG8=", "")

\* a part with a filename, inline data and children
AttachWithParts ==
    [Node("application", "zip", TRUE, <<TextHello>>)
        EXCEPT !.filename = "a.zip", !.hasData = TRUE, !.data = "AAEC"]

Payloads ==
    [plain    |-> TextHello,
     badpad   |-> TextBadPadding,
     badutf   |-> TextBadUtf8,
     mixed    |-> Node("multipart", "mixed", TRUE, <<TextHello, AttachInline>>),
     remote   |-> Node("multipart", "mixed", TRUE, <<TextHello, AttachRemote>>),
     nested   |-> Node("multipart", "mixed", TRUE,
                       <<Node("multipart", "alternative", TRUE, <<>>),
                         TextHello>>),
     empty    |-> Node("multipart", "mixed", TRUE, <<>>),
     noparts  |-> Node("multipart", "mixed", FALSE, <<>>),
     textfile |-> TextNamed,
     deep     |-> Node("multipart", "mixed", TRUE,
                       <<AttachRemote,
                         Node("multipart", "alternative", TRUE,
                              <<TextHello, TextUtf8>>),
                         AttachWithParts,
                         AttachRemote2>>)]

PayloadNames == DOMAIN Payloads

(***************************************************************************)
(* parse_email_body: the MIME object built for a part, or the exception    *)
(* the walk raises.  attOk is the outcome of the attachments().get call;   *)
(* gets lists the attachment ids the walk has asked the service for.       *)
(***************************************************************************)
Built(p) == [exc |-> "none", part |-> p, gets |-> <<>>]

Raised(e) == [exc |-> e, part |-> <<>>, gets |-> <<>>]

\* the result r of a walk that has issued the calls g before and during it
WithGets(r, g) == [r EXCEPT !.gets = g]

MIMEText(content, subtype) ==
    [cls |-> "MIMEText", maintype |-> "text", subtype |-> subtype,
     payload |-> content, filename |-> "", children |-> <<>>]

MIMEBase(maintype, subtype, payload, filename, children) ==
    [cls |-> "MIMEBase", maintype |-> maintype, subtype |-> subtype,
     payload |-> payload, filename |-> filename, children |-> children]

\* a text branch that gives way to the filename
IsTextPartUnnamed(message) ==
    message.mime_type = "text" /\ message.filename = ""

\* line 55: the text branch is tried first
IsTextPart(message) == message.mime_type = "text"

\* line 59: message.get("filename") is truthy
IsAttachmentPart(message) == message.filename # ""

RECURSIVE parse_email_body(_, _)
RECURSIVE parse_subparts(_, _, _, _)

\* a walk that attaches each child in front of the ones before it
RECURSIVE parse_subparts_prepending(_, _, _, _)
parse_subparts_prepending(parts, i, attOk, acc) ==
    IF i > Len(parts) THEN acc
    ELSE LET r == parse_email_body(parts[i], attOk)
         IN  IF r.exc # "none"
             THEN WithGets(Raised(r.exc), acc.gets \o r.gets)
             ELSE parse_subparts_prepending(parts, i + 1, attOk,
                      WithGets(Built(<<r.part>> \o acc.part),
                               acc.gets \o r.gets))

\* lines 80-81: acc holds the children attached and the calls issued so far
parse_subparts(parts, i, attOk, acc) ==
    IF i > Len(parts) THEN acc
    ELSE LET r == parse_email_body(parts[i], attOk)
         IN  IF r.exc # "none"
             THEN WithGets(Raised(r.exc), acc.gets \o r.gets)
             ELSE parse_subparts(parts, i + 1, attOk,
                      WithGets(Built(Append(acc.part, r.part)),
                               acc.gets \o r.gets))

parse_email_body(message, attOk) ==
    IF IsTextPart(message) THEN
        IF ~message.hasData THEN Raised("KeyError")
        ELSE LET b == urlsafe_b64decode(message.data)
             IN  IF b.exc # "none" THEN Raised(b.exc)
                 ELSE LET t == utf8_decode(b.val)
                      IN  IF t.exc # "none" THEN Raised(t.exc)
                          ELSE Built(MIMEText(t.val, message.mime_subtype))
    ELSE IF IsAttachmentPart(message) THEN
        LET g == IF message.hasData THEN <<>> ELSE <<message.attachmentId>>
        IN  IF ~message.hasData /\ ~attOk THEN WithGets(Raised("HttpError"), g)
            ELSE LET data == IF message.hasData THEN message.data
                             ELSE message.remoteData
                     b == urlsafe_b64decode(data)
                 IN  IF b.exc # "none" THEN WithGets(Raised(b.exc), g)
                     ELSE WithGets(
                              Built(MIMEBase(message.mime_type,
                                             message.mime_subtype,
                                             b.val, message.filename, <<>>)),
                              g)
    ELSE
        \* for subpart in message.get("parts"): iterating None is a TypeError
        IF ~message.hasParts THEN Raised("TypeError")
        ELSE LET r == parse_subparts(message.parts, 1, attOk, Built(<<>>))
             IN  IF r.exc # "none" THEN r
                 ELSE WithGets(
                          Built(MIMEBase(message.mime_type, message.mime_subtype,
                                         <<>>, "", r.part)),
                          r.gets)

\* does the part tree hold an attachment whose data must be fetched
RECURSIVE NeedsAttachmentFetch(_)
NeedsAttachmentFetch(message) ==
    IF IsTextPart(message) THEN FALSE
    ELSE IF IsAttachmentPart(message) THEN ~message.hasData
    ELSE \E i \in 1..Len(message.parts) : NeedsAttachmentFetch(message.parts[i])

\* a call of parse_email_body on a payload and what came of it
Parsed(message, r) ==
    [message |-> message, exc |-> r.exc, part |-> r.part, gets |-> r.gets]

NoParse == [message |-> <<>>, exc |-> "none", part |-> <<>>, gets |-> <<>>]

(***************************************************************************)
(* message.as_string() of the outbound MIMEMultipart wrapping the part:    *)
(* the generator writes a list payload only for a multipart main type and  *)
(* raises TypeError('string payload expected') for any other one.          *)
(***************************************************************************)
RECURSIVE as_string_exc(_)
as_string_exc(part) ==
    IF part.children = <<>> THEN "none"
    ELSE IF part.maintype # "multipart" THEN "TypeError"
    ELSE IF \E i \in 1..Len(part.children) :
                as_string_exc(part.children[i]) # "none"
         THEN "TypeError"
    ELSE "none"

(***************************************************************************)
(* The messages as messages().get returns them: id, threadId and the       *)
(* headers of the payload.                                                 *)
(***************************************************************************)
Header(name, value) == [name |-> name, value |-> value]

HeadersOf(m) ==
    CASE m = "m1" -> <<Header("From", "s@example.com"), Header("Subject", "Hello")>>
      [] m = "m2" -> <<Header("From", "s@example.com"), Header("Date", "Mon")>>
      [] OTHER    -> <<Header("Subject", "Report"), Header("To", "y")>>

ThreadOf(m) == IF m = "m3" THEN "t3" ELSE "t1"

\* lines 115-118: the value of the last header named Subject, else ""
RECURSIVE subject_from(_, _, _)
subject_from(headers, i, subject) ==
    IF i > Len(headers) THEN subject
    ELSE subject_from(headers, i + 1,
             IF headers[i].name = "Subject" THEN headers[i].value ELSE subject)

get_subject(headers) == subject_from(headers, 1, "")

\* sep.join(strs)
RECURSIVE join_from(_, _, _)
join_from(strs, i, sep) ==
    IF i > Len(strs) THEN ""
    ELSE IF i = Len(strs) THEN strs[i]
    ELSE strs[i] \o sep \o join_from(strs, i + 1, sep)

join(sep, strs) == join_from(strs, 1, sep)

\* a reply that threads on the conversation instead of the message
BuildMessageOnThread(acc, email_list, id, threadId, subject, part) ==
    [from |-> acc, to |-> email_list.to, cc |-> join(",", email_list.cc),
     InReplyTo |-> threadId, References |-> threadId, subject |-> subject,
     body |-> part]

\* lines 122-129: the MIMEMultipart that is sent
BuildMessage(acc, email_list, id, threadId, subject, part) ==
    [from |-> acc, to |-> email_list.to, cc |-> join(",", email_list.cc),
     InReplyTo |-> id, References |-> id, subject |-> subject,
     body |-> part]

\* lines 131-132: the body of the send call; raw stands for the encoded
\* serialisation of the message
ReplyMessage(message, threadId) == [raw |-> message, threadId |-> threadId]

NoReply == [raw |-> <<>>, threadId |-> ""]

(***************************************************************************)
(* email_list_parser: the rule files of the directory email_lists, each a  *)
(* sequence of stripped lines, and the mapping parse() builds from them.   *)
(* The mapping is a sequence of entries in insertion order, as the keys of *)
(* a dict are.                                                             *)
(***************************************************************************)
\* email.utils.parseaddr gives ('', '') for a string it cannot read as an
\* address; any other string yields a non-empty address part
Unparsable == {"", "@", "<>", ",", "a@"}

\* lines 9-11 of email_list_parser.py
validate_email(email) == email \notin Unparsable

\* lines[5:]
Tail5(lines) == SubSeq(lines, 6, Len(lines))

\* line 24: the markers, tested left to right; a missing line raises
MarkerCheck(lines) ==
    IF Len(lines) < 1 THEN "IndexError"
    ELSE IF lines[1] # "ACCOUNT" THEN "invalid"
    ELSE IF Len(lines) < 3 THEN "IndexError"
    ELSE IF lines[3] # "TO" THEN "invalid"
    ELSE IF Len(lines) < 5 THEN "IndexError"
    ELSE IF lines[5] # "CC" THEN "invalid"
    ELSE "ok"

\* line 28: email_lists[key] = value; a key already present keeps its place
Put(d, key, value) ==
    IF \E i \in 1..Len(d) : d[i].account = key
    THEN [i \in 1..Len(d) |->
             IF d[i].account = key
             THEN [account |-> key, to |-> value.to, cc |-> value.cc]
             ELSE d[i]]
    ELSE Append(d, [account |-> key, to |-> value.to, cc |-> value.cc])

\* lines 30-33: the addresses of a file that are reported as invalid; the
\* continue of line 33 goes on with the next address of the same file
InvalidEmails(lines) ==
    {e \in {lines[2], lines[4]} \cup {lines[i] : i \in 6..Len(lines)} :
        ~validate_email(e)}

\* lines 19-33 for the files from position i on
RECURSIVE parse_files(_, _, _, _)
parse_files(fs, i, email_lists, logged) ==
    IF i > Len(fs) THEN [exc |-> "none", lists |-> email_lists, logged |-> logged]
    ELSE LET lines == fs[i]
             chk   == MarkerCheck(lines)
         IN  IF chk = "IndexError"
             THEN [exc |-> "IndexError", lists |-> email_lists, logged |-> logged]
             ELSE IF chk = "invalid"
             THEN parse_files(fs, i + 1, email_lists, logged)
             ELSE parse_files(fs, i + 1,
                      Put(email_lists, lines[2],
                          [to |-> lines[4], cc |-> Tail5(lines)]),
                      logged \cup InvalidEmails(lines))

\* lines 14-35: parse()
parse(fs) == parse_files(fs, 1, <<>>, {})

\* email_lists.keys()
Keys(d) == [i \in 1..Len(d) |-> d[i].account]

\* email_lists.get(account)
Get(d, key) ==
    LET i == CHOOSE j \in 1..Len(d) : d[j].account = key
    IN  [to |-> d[i].to, cc |-> d[i].cc]

RuleFile(account, to, cc) == <<"ACCOUNT", account, "TO", to, "CC">> \o cc

\* the rule files of the deployment the scheduler is run with
RuleFiles ==
    <<RuleFile("x", "list@example.com", <<"a@example.com", "b@example.com">>),
      RuleFile("y", "team@example.com", <<>>)>>

(***************************************************************************)
(* State.                                                                  *)
(***************************************************************************)
VARIABLES
    files,            \* environment: the rule files, in os.listdir order
    email_lists,      \* main(): the mapping returned by parse()
    clients,          \* main(): the authenticated accounts, in order
    key_idx,          \* main(): position of the login loop in the keys
    excluded,         \* history: accounts whose profile named another address
    now,              \* environment: the wall clock, minutes since midnight
    unread,           \* environment: per account, the ids labelled UNREAD
    payloadOf,        \* environment: per message id, the name of its payload
    pc,               \* main(): the statement the process is at
    dtime,            \* main(): the time sampled by the loop
    acct,             \* main(): position of the for loop in clients
    unread_email_ids, \* cycle: the ids the listing returned
    unread_emails,    \* cycle: the (response, exception) pairs collected
    idx,              \* cycle: position of the loop over unread_emails
    processed_ids,    \* cycle: ids whose send returned
    reply_message,    \* cycle: the body of the last send call
    parsed,           \* history: the last call of parse_email_body
    fetchFailed,      \* history: ids whose fetch failed in this cycle
    mstat,            \* history: what this cycle did with each message
    lastExc,          \* history: the last exception raised in this cycle
    modifyState,      \* history: outcome of this cycle's batch-modify
    removedNow,       \* history: ids whose label this cycle removed
    tickLog,          \* history: per account, how its cycle of this tick ended
    pendingAck        \* history: sent ids whose batch-modify raised

vars == <<files, email_lists, clients, key_idx, excluded, now, unread, payloadOf, pc, dtime, acct, unread_email_ids,
          unread_emails, idx, processed_ids, reply_message, parsed,
          fetchFailed, mstat, lastExc,
          modifyState, removedNow, tickLog, pendingAck>>

envVars == <<now, unread, payloadOf>>

startVars == <<files, email_lists, clients, key_idx, excluded>>

NumAccounts == Cardinality(Accounts)

cycleVars == <<unread_email_ids, unread_emails, idx, processed_ids,
               reply_message, parsed,
               fetchFailed, mstat, lastExc, modifyState, removedNow>>

Range(s) == {s[i] : i \in 1..Len(s)}

Min(a, b) == IF a < b THEN a ELSE b

account == clients[acct]

\* the mailbox a message id belongs to
Owner(m) == CHOOSE a \in Accounts : m \in MsgsOf(a)

\* the last cycle that was started has returned to main()
CycleEnded == pc \in {"for", "sleep"} /\ acct > 0

\* the ids whose send returned in the current cycle
SentNow == {m \in Msgs : mstat[m] = "sent"}

NoExc == [exc |-> "none", at |-> "none"]

\* the payloads the mailboxes may hold when the process starts
InitialPayloads ==
    {f \in [Msgs -> PayloadNames] :
        /\ f["m2"] \in {"plain", "remote"}
        /\ f["m3"] = "plain"}

\* the drift of sleep(5), in minutes
Delays == {0, 1}

\* the time execute() takes to return, in minutes: at once, or longer than
\* the cutoff window lasts (no call sets a timeout)
CallDelays == {0, 6}

Elapse(d) == Min(now + d, Horizon)

\* what main() starts from, whatever the directory and the mailboxes hold
Start ==
    /\ email_lists = <<>>
    /\ clients = <<>>
    /\ key_idx = 1
    /\ excluded = {}
    /\ unread = [a \in Accounts |-> MsgsOf(a)]
    /\ pc = "parse"
    /\ dtime = now
    /\ acct = 0
    /\ unread_email_ids = {}
    /\ unread_emails = <<>>
    /\ idx = 1
    /\ processed_ids = <<>>
    /\ reply_message = NoReply
    /\ parsed = NoParse
    /\ fetchFailed = {}
    /\ mstat = [m \in Msgs |-> "none"]
    /\ lastExc = NoExc
    /\ modifyState = "not_reached"
    /\ removedNow = {}
    /\ tickLog = [i \in 1..NumAccounts |-> "pending"]
    /\ pendingAck = {}

Init ==
    /\ files = RuleFiles
    /\ now \in StartTimes
    /\ payloadOf \in InitialPayloads
    /\ Start

(***************************************************************************)
(* main(): loading the rules and authenticating the accounts.              *)
(***************************************************************************)
\* line 155: email_lists = email_list_parser.parse()
ParseRules ==
    /\ pc = "parse"
    /\ LET r == parse(files)
       IN  /\ email_lists' = r.lists
           /\ pc' = IF r.exc = "none" THEN "login" ELSE "crashed"
    /\ UNCHANGED <<files, clients, key_idx, excluded, envVars, dtime, acct,
                   cycleVars, tickLog, pendingAck>>

\* a login loop that keeps the client whatever the profile says
AuthenticatedAlways(cl, a, identity) == Append(cl, a)

\* lines 165-170: the client is appended, and deleted again when the
\* profile names another address
Authenticated(cl, a, identity) ==
    IF identity # a THEN cl ELSE Append(cl, a)

\* the addresses getProfile may answer with for an account
Identities(a) == {a, "other@example.com"}

\* lines 162-174: one account of the login loop; only ValueError is caught
Login ==
    /\ pc = "login"
    /\ key_idx <= Len(email_lists)
    /\ LET a == Keys(email_lists)[key_idx]
       IN  \E ok \in BOOLEAN :
             IF ok
             THEN \E identity \in Identities(a) :
                    /\ clients' = Authenticated(clients, a, identity)
                    /\ excluded' = IF identity # a THEN excluded \cup {a}
                                   ELSE excluded
                    /\ key_idx' = key_idx + 1
                    /\ pc' = "login"
             ELSE \* getProfile raises HttpError
                  /\ pc' = "crashed"
                  /\ UNCHANGED <<clients, excluded, key_idx>>
    /\ UNCHANGED <<files, email_lists, envVars, dtime, acct, cycleVars,
                   tickLog, pendingAck>>

\* line 176: the keys are exhausted and the clock is sampled
LoginDone ==
    /\ pc = "login"
    /\ key_idx > Len(email_lists)
    /\ dtime' = now
    /\ pc' = "while"
    /\ UNCHANGED <<startVars, envVars, acct, cycleVars, tickLog, pendingAck>>

(***************************************************************************)
(* main(): the polling loop.                                               *)
(***************************************************************************)
\* line 178, condition false: the loop is left and the process ends
Stop ==
    /\ pc = "while"
    /\ CutoffReached(dtime)
    /\ pc' = "stopped"
    /\ UNCHANGED <<envVars, dtime, acct, cycleVars, tickLog, pendingAck>>
    /\ UNCHANGED startVars

\* lines 178-179: the body is entered and the clock is sampled; nothing is
\* left of the cycles of the tick before
StartTick ==
    /\ pc = "while"
    /\ ~CutoffReached(dtime)
    /\ dtime' = now
    /\ acct' = 0
    /\ tickLog' = [i \in 1..NumAccounts |-> "pending"]
    /\ unread_email_ids' = {}
    /\ unread_emails' = <<>>
    /\ idx' = 1
    /\ processed_ids' = <<>>
    /\ reply_message' = NoReply
    /\ parsed' = NoParse
    /\ fetchFailed' = {}
    /\ mstat' = [m \in Msgs |-> "none"]
    /\ lastExc' = NoExc
    /\ modifyState' = "not_reached"
    /\ removedNow' = {}
    /\ pc' = "for"
    /\ UNCHANGED <<envVars, pendingAck>>
    /\ UNCHANGED startVars

\* line 181-182: the next client's cycle is called
ForNext ==
    /\ pc = "for"
    /\ acct < Len(clients)
    /\ acct' = acct + 1
    /\ tickLog' = [tickLog EXCEPT ![acct + 1] = "running"]
    /\ unread_email_ids' = {}
    /\ unread_emails' = <<>>
    /\ idx' = 1
    /\ processed_ids' = <<>>
    /\ reply_message' = NoReply
    /\ parsed' = NoParse
    /\ fetchFailed' = {}
    /\ mstat' = [m \in Msgs |-> "none"]
    /\ lastExc' = NoExc
    /\ modifyState' = "not_reached"
    /\ removedNow' = {}
    /\ pc' = "list"
    /\ UNCHANGED <<envVars, dtime, pendingAck>>
    /\ UNCHANGED startVars

\* a for loop that is left after the first client
ForDoneEarly ==
    /\ pc = "for"
    /\ acct >= 1
    /\ pc' = "sleep"
    /\ UNCHANGED <<envVars, dtime, acct, cycleVars, tickLog, pendingAck>>
    /\ UNCHANGED startVars

\* line 181: the clients are exhausted
ForDone ==
    /\ pc = "for"
    /\ acct = Len(clients)
    /\ pc' = "sleep"
    /\ UNCHANGED <<envVars, dtime, acct, cycleVars, tickLog, pendingAck>>
    /\ UNCHANGED startVars

\* line 184: time.sleep(5)
Sleep ==
    /\ pc = "sleep"
    /\ \E d \in Delays : now' = Elapse(d)
    /\ pc' = "while"
    /\ UNCHANGED <<unread, payloadOf, dtime, acct, cycleVars, tickLog,
                   pendingAck>>
    /\ UNCHANGED startVars

(***************************************************************************)
(* apply_forwarding_rule(): one cycle for the account clients[acct].       *)
(***************************************************************************)
\* a per-message handler that also swallows transport errors
InnerCatchesTransport(exc) == exc \in {"RuntimeError", "HttpError"}

\* line 140: except RuntimeError: continue
InnerCatches(exc) == exc = "RuntimeError"

\* a cycle without the handler of line 150
OuterCatchesNothing(exc) == FALSE

\* line 150: except HttpError as error
OuterCatches(exc) == exc = "HttpError"

\* where an exception raised in the cycle ends up; inner says whether it
\* was raised inside the per-message try of lines 113-141
Handler(exc, inner) ==
    IF inner /\ InnerCatches(exc) THEN "continue"
    ELSE IF OuterCatches(exc) THEN "return"
    ELSE "crash"

\* the calls whose failure the per-message try does not enclose
CycleFatal == {"list", "batch_get", "batch_modify"}

Raise(exc, at, inner) ==
    LET h == Handler(exc, inner)
    IN  /\ lastExc' = [exc |-> exc, at |-> at]
        /\ pc' = CASE h = "continue" -> "loop"
                   [] h = "return"   -> "for"
                   [] OTHER          -> "crashed"
        /\ idx' = IF h = "continue" THEN idx + 1 ELSE idx
        /\ tickLog' = IF h = "return"
                      THEN [tickLog EXCEPT ![acct] =
                              IF at \in CycleFatal THEN "fatal" ELSE "aborted"]
                      ELSE tickLog

\* a listing that leaves out the ids the process has sent before
ListResultUnsent(a) == unread[a] \ pendingAck

\* a listing of the whole mailbox, read or not
ListResultAll(a) == MsgsOf(a)

\* lines 95-96: the ids currently labelled UNREAD
ListResult(a) == unread[a]

ListUnread ==
    /\ pc = "list"
    /\ \E d \in CallDelays : now' = Elapse(d)
    /\ \E ok \in BOOLEAN :
         IF ok
         THEN /\ unread_email_ids' = ListResult(account)
              /\ pc' = "batch_get"
              /\ UNCHANGED <<idx, lastExc, tickLog>>
         ELSE /\ Raise("HttpError", "list", FALSE)
              /\ UNCHANGED unread_email_ids
    /\ UNCHANGED <<unread, payloadOf, dtime, acct, unread_emails,
                   processed_ids, fetchFailed, mstat, modifyState,
                   removedNow, pendingAck>>
    /\ UNCHANGED startVars
    /\ UNCHANGED <<reply_message, parsed>>

\* the orders in which the callbacks of a batch may arrive
Arrivals(ids) ==
    {o \in [1..Cardinality(ids) -> ids] :
        \A i, j \in 1..Cardinality(ids) : o[i] = o[j] => i = j}

\* line 104: the callback appends (response, exception)
Callback(id, failed) ==
    [msg |-> IF id \in failed THEN NoMsg ELSE id, exc |-> id \in failed]

\* lines 101-105: the pairs collected by one batch of gets
Collect(order, failed) ==
    [i \in 1..Len(order) |-> Callback(order[i], failed)]

BatchGet ==
    /\ pc = "batch_get"
    /\ IF unread_email_ids = {}
       THEN \* a batch without requests is not sent
            /\ unread_emails' = <<>>
            /\ pc' = "loop"
            /\ UNCHANGED <<idx, fetchFailed, lastExc, tickLog>>
       ELSE \E ok \in BOOLEAN :
              IF ok
              THEN \E order \in Arrivals(unread_email_ids),
                      failed \in SUBSET unread_email_ids :
                     /\ unread_emails' = Collect(order, failed)
                     /\ fetchFailed' = failed
                     /\ pc' = "loop"
                     /\ UNCHANGED <<idx, lastExc, tickLog>>
              ELSE /\ Raise("HttpError", "batch_get", FALSE)
                   /\ UNCHANGED <<unread_emails, fetchFailed>>
    /\ UNCHANGED <<envVars, dtime, acct, unread_email_ids, processed_ids,
                   mstat, modifyState, removedNow, pendingAck>>
    /\ UNCHANGED startVars
    /\ UNCHANGED <<reply_message, parsed>>

\* a loop that takes up the pair of a failed fetch as well
IsSkippedNever(entry) == FALSE

\* line 109: if exception
IsSkipped(entry) == entry.exc

\* lines 109-111: the pair of a failed fetch is passed over
SkipFailedFetch ==
    /\ pc = "loop"
    /\ idx <= Len(unread_emails)
    /\ IsSkipped(unread_emails[idx])
    /\ idx' = idx + 1
    /\ UNCHANGED <<envVars, pc, dtime, acct, unread_email_ids, unread_emails,
                   processed_ids, fetchFailed, mstat, lastExc, modifyState,
                   removedNow, tickLog, pendingAck>>
    /\ UNCHANGED startVars
    /\ UNCHANGED <<reply_message, parsed>>

\* the id recorded before the send call is made
RecordSentBefore(ids, id, sent) == Append(ids, id)

\* line 136: the id is recorded once send has returned
RecordSent(ids, id, sent) == IF sent THEN Append(ids, id) ELSE ids

\* lines 113-141: reconstruct, build, send and record one fetched message
ForwardMessage ==
    /\ pc = "loop"
    /\ idx <= Len(unread_emails)
    /\ ~IsSkipped(unread_emails[idx])
    /\ LET m == unread_emails[idx].msg
       IN  IF m = NoMsg
           THEN \* unread_email is None: None.get raises
                /\ Raise("AttributeError", "parse", TRUE)
                /\ UNCHANGED <<processed_ids, mstat, reply_message,
                               parsed>>
           ELSE \E attOk \in BOOLEAN, sendOk \in BOOLEAN :
                  LET body == Payloads[payloadOf[m]]
                      r    == parse_email_body(body, attOk)
                      ser  == IF r.exc = "none" THEN as_string_exc(r.part)
                              ELSE "none"
                      recExc == IF r.exc # "none" THEN r.exc ELSE ser
                      message == BuildMessage(account, Get(email_lists, account),
                                              m, ThreadOf(m),
                                              get_subject(HeadersOf(m)), r.part)
                  IN  /\ (attOk \/ NeedsAttachmentFetch(body))
                      /\ parsed' = Parsed(body, r)
                      /\ reply_message' =
                            IF recExc # "none" THEN reply_message
                            ELSE ReplyMessage(message, ThreadOf(m))
                      /\ IF recExc # "none"
                         THEN /\ sendOk
                              /\ Raise(recExc,
                                       IF r.exc = "HttpError" THEN "attachment"
                                       ELSE "parse", TRUE)
                              /\ mstat' = [mstat EXCEPT ![m] = "recon_failed"]
                              /\ UNCHANGED processed_ids
                         ELSE /\ processed_ids' = RecordSent(processed_ids, m, sendOk)
                              /\ IF sendOk
                                 THEN /\ mstat' = [mstat EXCEPT ![m] = "sent"]
                                      /\ idx' = idx + 1
                                      /\ UNCHANGED <<pc, lastExc, tickLog>>
                                 ELSE /\ Raise("HttpError", "send", TRUE)
                                      /\ mstat' = [mstat EXCEPT ![m] = "send_failed"]
    /\ UNCHANGED <<envVars, dtime, acct, unread_email_ids, unread_emails,
                   fetchFailed, modifyState, removedNow, pendingAck>>
    /\ UNCHANGED startVars

\* lines 144-147: one modify request per recorded id
ModifyIds(ids) == Range(ids)

\* lines 143-148: the labels are removed in one batch after the loop
BatchModify ==
    /\ pc = "loop"
    /\ idx > Len(unread_emails)
    /\ IF ModifyIds(processed_ids) = {}
       THEN \* a batch without requests is not sent
            /\ modifyState' = "empty"
            /\ pc' = "for"
            /\ tickLog' = [tickLog EXCEPT ![acct] = "done"]
            /\ UNCHANGED <<unread, removedNow, lastExc, idx, pendingAck>>
       ELSE \E ok \in BOOLEAN :
              IF ok
              THEN \* a request that fails on its own is reported to no one
                   \E applied \in SUBSET ModifyIds(processed_ids) :
                     /\ unread' = [unread EXCEPT ![account] = @ \ applied]
                     /\ removedNow' = applied
                     /\ pendingAck' = pendingAck \ applied
                     /\ modifyState' = "ok"
                     /\ pc' = "for"
                     /\ tickLog' = [tickLog EXCEPT ![acct] = "done"]
                     /\ UNCHANGED <<lastExc, idx>>
              ELSE /\ Raise("HttpError", "batch_modify", FALSE)
                   /\ modifyState' = "failed"
                   /\ pendingAck' = pendingAck \cup ModifyIds(processed_ids)
                   /\ UNCHANGED <<unread, removedNow>>
    /\ UNCHANGED <<now, payloadOf, dtime, acct, unread_email_ids,
                   unread_emails, processed_ids, fetchFailed, mstat>>
    /\ UNCHANGED startVars
    /\ UNCHANGED <<reply_message, parsed>>

Next ==
    \/ ParseRules
    \/ Login
    \/ LoginDone
    \/ Stop
    \/ StartTick
    \/ ForNext
    \/ ForDone
    \/ Sleep
    \/ ListUnread
    \/ BatchGet
    \/ SkipFailedFetch
    \/ ForwardMessage
    \/ BatchModify

Spec == Init /\ [][Next]_vars

(***************************************************************************)
(* The loader on its own: parse() applied to the directories of at most    *)
(* MaxFiles files taken from well-formed and malformed rule files.         *)
(***************************************************************************)
CandidateFiles ==
    {RuleFile("x", "list@example.com", <<"a@example.com", "b@example.com">>),
     RuleFile("y", "team@example.com", <<>>),
     <<"ACCOUNTS", "x", "TO", "list@example.com", "CC">>,
     <<"ACCOUNT", "y", "To", "team@example.com", "CC">>,
     RuleFile("", "list@example.com", <<>>),
     RuleFile("x", "@", <<>>),
     RuleFile("y", "team@example.com", <<"a@example.com", "<>">>),
     <<"ACCOUNT", "x", "TO", "list@example.com">>,
     <<>>}

Directories ==
    UNION {[1..n -> CandidateFiles] : n \in 1..MaxFiles}

InitLoad ==
    /\ files \in Directories
    /\ now = 1434
    /\ payloadOf = [m \in Msgs |-> "plain"]
    /\ Start

LoadNext == ParseRules

SpecLoad == InitLoad /\ [][LoadNext]_vars

TypeOK ==
    /\ now \in 0..Horizon
    /\ pc \in {"parse", "login", "while", "for", "list", "batch_get", "loop", "sleep",
               "stopped", "crashed"}
    /\ acct \in 0..Len(clients)
    /\ idx \in 1..(Len(unread_emails) + 1)

(***************************************************************************)
(* Properties.                                                             *)
(***************************************************************************)
\* the current cycle collected the results of its batch of gets
Collected == lastExc.at \notin {"list", "batch_get"}

\* the ids of the pairs that carry a response
FetchedOk == {unread_emails[i].msg : i \in {j \in 1..Len(unread_emails) :
                                              ~unread_emails[j].exc}}

\* the ids the loop over the collected pairs has taken up
TakenUp == {m \in Msgs : mstat[m] # "none"}

\* C1: when the send call for one fetched message fails, only that message
\* is skipped: its id is not recorded and it stays unread, the process stays
\* alive, the loop goes on over the remaining fetched messages and the
\* batch-modify at the end of the cycle is still issued.
C1_SendFailureSkipsOnlyThatMessage ==
    \A m \in Msgs :
        mstat[m] = "send_failed" =>
            /\ m \notin Range(processed_ids)
            /\ m \in unread[Owner(m)]
            /\ pc # "crashed"
            /\ CycleEnded => /\ idx > Len(unread_emails)
                             /\ modifyState # "not_reached"

\* C2: when the reconstruction of one fetched message fails, only that
\* message is skipped: it is not sent and not acknowledged, and the cycle
\* goes on with the next fetched message up to the end of the loop.
C2_ReconstructionFailureSkipsOnlyThatMessage ==
    \A m \in Msgs :
        mstat[m] = "recon_failed" =>
            /\ m \notin Range(processed_ids)
            /\ m \in unread[Owner(m)]
            /\ pc # "crashed"
            /\ CycleEnded => idx > Len(unread_emails)

\* C3: a message that was sent and whose batch-modify failed is still
\* unread, and the next listing of its account offers it again: every
\* listing returns all unread ids, whatever was sent before.
C3_AtLeastOnceRetry ==
    /\ \A m \in pendingAck : m \in unread[Owner(m)]
    /\ modifyState = "failed" => SentNow \subseteq unread[account]
    /\ pc = "batch_get" =>
          /\ unread_email_ids = unread[account]
          /\ pendingAck \cap MsgsOf(account) \subseteq unread_email_ids

\* C3 witness: a message whose acknowledgement failed in an earlier cycle
\* has been sent again by the current cycle.
C3_Witness ==
    /\ pc = "loop"
    /\ modifyState = "not_reached"
    /\ \E m \in pendingAck : mstat[m] = "sent"

\* the labels the step removes, per account
Removed(a) == unread[a] \ unread'[a]

\* C4 (state part): only ids whose send has returned in this cycle are
\* recorded for, or subject to, label removal.
C4_RecordedOnlyAfterSend ==
    /\ Range(processed_ids) \subseteq SentNow
    /\ removedNow \subseteq SentNow

\* C4 (step part): a step that removes a label is the single batch-modify
\* of the cycle, taken after the loop over the fetched messages has ended,
\* and it removes only labels of ids sent in this cycle by this account.
C4_RemovalStep ==
    (unread' # unread) =>
        /\ pc = "loop" /\ idx > Len(unread_emails)
        /\ modifyState = "not_reached" /\ pc' = "for"
        /\ Removed(account) \subseteq SentNow \cap MsgsOf(account)
        /\ \A a \in Accounts : unread'[a] \subseteq unread[a]
        /\ \A a \in Accounts \ {account} : unread'[a] = unread[a]

\* C4: in every cycle the unread label is removed from a message only if
\* the send for that message returned earlier in the same cycle, and every
\* removal of the cycle is issued in one batch after the last send.
C4_AckOnlyAfterSend == []C4_RecordedOnlyAfterSend /\ [][C4_RemovalStep]_vars

\* C4 witness: a cycle has ended after removing the label of a sent message.
C4_Witness == pc = "for" /\ removedNow # {} /\ modifyState = "ok"

\* C5: a failure of the listing, batch-fetch or batch-modify call in one
\* account's cycle ends that cycle only: the process stays alive, the cycle
\* removed no label, and when the tick reaches its sleep every account's
\* cycle has run on it.
C5_CycleIsolation ==
    /\ lastExc.at \in CycleFatal =>
          /\ pc # "crashed"
          /\ removedNow = {}
          /\ tickLog[acct] = "fatal"
    /\ pc = "sleep" =>
          \A i \in 1..Len(clients) : tickLog[i] \in {"done", "fatal", "aborted"}

\* C5 witness: on one tick the first account's cycle was aborted by such a
\* failure and the second account's cycle has run and sent its message.
C5_Witness ==
    /\ tickLog[1] = "fatal"
    /\ tickLog[2] = "done"
    /\ mstat["m3"] = "sent"
    /\ unread["x"] # {}

\* C6: no error raised in a cycle terminates the process.
C6_NoErrorTerminatesProcess == lastExc.exc # "none" => pc # "crashed"

\* a tick is in progress: the loop body of main() is being executed
TickInProgress == pc \in {"for", "list", "batch_get", "loop", "sleep"}

\* C7: the scheduler performs no tick at a time inside the cutoff window:
\* whenever a tick is in progress, the time at which it began lies outside.
C7_NoTickInsideCutoff == TickInProgress => ~CutoffReached(dtime)

\* the part tree holds a part that is neither text nor attachment and has
\* no children
RECURSIVE HasChildlessContainer(_)
HasChildlessContainer(message) ==
    /\ ~IsTextPart(message)
    /\ ~IsAttachmentPart(message)
    /\ \/ ~message.hasParts
       \/ message.parts = <<>>
       \/ \E i \in 1..Len(message.parts) :
              HasChildlessContainer(message.parts[i])

\* C8: the reconstruction of a container without children fails: no
\* message whose body holds one gets through reconstruction to the send
\* call, and none is sent.
C8_ChildlessContainerNeverSent ==
    \A m \in Msgs :
        HasChildlessContainer(Payloads[payloadOf[m]]) =>
            mstat[m] \notin {"sent", "send_failed"}

\* the collected pairs hold one pair per requested id: a response for each
\* id whose fetch succeeded, an exception for each id whose fetch failed
BatchResultsComplete ==
    (Collected /\ pc \in {"loop", "for", "crashed"} /\ acct > 0) =>
        /\ Len(unread_emails) = Cardinality(unread_email_ids)
        /\ FetchedOk = unread_email_ids \ fetchFailed
        /\ Cardinality(FetchedOk) + Cardinality(fetchFailed)
             = Len(unread_emails)

\* C9: whatever the order in which the callbacks of the batch arrive, the
\* collected pairs hold one pair per requested id and the messages the
\* cycle processes are determined by the fetch results alone: a cycle that
\* has collected its pairs takes up every fetched message.
C9_BatchOrderIndependence ==
    /\ BatchResultsComplete
    /\ (Collected /\ pc = "for" /\ acct > 0) => TakenUp = FetchedOk

\* C10 (state part): an id whose fetch failed is not reconstructed, not
\* sent, not recorded and keeps its label.
C10_FailedFetchUntouched ==
    \A m \in fetchFailed :
        /\ mstat[m] = "none"
        /\ m \notin Range(processed_ids)
        /\ m \notin removedNow
        /\ m \in unread[Owner(m)]

\* C10 (step part): at the pair of a failed fetch the loop moves on to the
\* next pair and changes nothing else.
C10_SkipStep ==
    (pc = "loop" /\ idx <= Len(unread_emails) /\ unread_emails[idx].exc) =>
        /\ pc' = "loop"
        /\ idx' = idx + 1
        /\ UNCHANGED <<unread, processed_ids, mstat, lastExc>>

\* C10: a message whose fetch inside the batch returned an error is skipped
\* in that cycle and stays unread, while the loop goes on with the other
\* messages of the batch.
C10_FailedFetchSkipped == []C10_FailedFetchUntouched /\ [][C10_SkipStep]_vars

\* C10 witness: a cycle has ended in which one fetch of the batch failed and
\* another message of the same batch was sent.
C10_Witness ==
    /\ pc = "for"
    /\ fetchFailed # {}
    /\ \E m \in unread_email_ids \ fetchFailed : mstat[m] = "sent"

\* how the cycle of an account that was called on this tick can have ended
Finished == {"done", "fatal", "aborted"}

\* the process is inside a cycle
InCycle == pc \in {"list", "batch_get", "loop"}

\* C11 (state part): at most one cycle is running, that of clients[acct];
\* the clients before it have had their cycle on this tick, the clients
\* after it have not.
C11_OneCycleAtATime ==
    InCycle =>
        /\ acct \in 1..Len(clients)
        /\ tickLog[acct] = "running"
        /\ \A i \in 1..(acct - 1) : tickLog[i] \in Finished
        /\ \A i \in (acct + 1)..Len(clients) : tickLog[i] = "pending"

\* C11 (step part): a cycle is begun for the next client in authentication
\* order, not yet served on this tick, after the cycles of all clients
\* before it have ended; the sleep is entered only when every client has
\* had its cycle; a tick is begun only after the sleep of the tick before.
C11_TickStep ==
    /\ (pc' = "list" /\ pc # "list") =>
          /\ pc = "for"
          /\ acct' = acct + 1
          /\ tickLog[acct'] = "pending"
          /\ \A i \in 1..acct : tickLog[i] \in Finished
    /\ (pc' = "sleep" /\ pc # "sleep") =>
          \A i \in 1..Len(clients) : tickLog[i] \in Finished
    /\ (pc' = "while" /\ pc # "while") => pc \in {"login", "sleep"}
    /\ (pc = "sleep" /\ pc' # "sleep") => pc' = "while"

\* C11: on every tick the cycle is invoked once for each active account, in
\* authentication order, one cycle ending before the next begins, and the
\* scheduler then sleeps before the next tick.
C11_OncePerAccountInOrder == []C11_OneCycleAtATime /\ [][C11_TickStep]_vars

\* C11 witness: a tick over two clients has reached its sleep.
C11_Witness ==
    /\ pc = "sleep"
    /\ Len(clients) = 2
    /\ \A i \in 1..2 : tickLog[i] \in Finished

\* the keys of the mapping whose profile named the configured address
Matching == SelectSeq(Keys(email_lists), LAMBDA a : a \notin excluded)

\* C12: the active accounts are exactly the configured accounts whose
\* authenticated identity equals the configured address, in the configured
\* order; no cycle runs for, and no message is taken from, another account.
C12_OnlyMatchingAccountsActive ==
    /\ Range(clients) \cap excluded = {}
    /\ pc \in {"while", "for", "sleep", "stopped"} \cup {"list", "batch_get", "loop"}
          => clients = Matching
    /\ InCycle => account \notin excluded
    /\ \A m \in Msgs : mstat[m] # "none" => Owner(m) \notin excluded

\* C12 witness: the first configured account was excluded and the cycle of
\* the second one has sent its message.
C12_Witness ==
    /\ excluded = {"x"}
    /\ pc = "loop"
    /\ clients = <<"y">>
    /\ mstat["m3"] = "sent"


(***************************************************************************)
(* C13                                                                     *)
(***************************************************************************)
\* the message whose send call was the last one of the running cycle
LastSent == unread_emails[idx - 1].msg

JustSent ==
    /\ pc = "loop" /\ idx > 1 /\ idx - 1 <= Len(unread_emails)
    /\ ~unread_emails[idx - 1].exc
    /\ mstat[LastSent] = "sent"
    /\ reply_message # NoReply

\* what the original says about its subject: the Subject header or nothing
SubjectHeaders(m) ==
    {HeadersOf(m)[i].value : i \in {j \in DOMAIN HeadersOf(m) :
                                       HeadersOf(m)[j].name = "Subject"}}

ExpectedSubject(m) ==
    IF SubjectHeaders(m) = {} THEN "" ELSE CHOOSE v \in SubjectHeaders(m) : TRUE

\* the rule of an account as the rule files state it
RuleOf(a) == CHOOSE f \in Range(RuleFiles) : f[2] = a

\* C13: every message a cycle of account X sends from the original M has
\* from = X, to = the to of X's rule, cc = the cc of X's rule joined with
\* commas, In-Reply-To = References = the id of M, subject = the Subject
\* header of M or the empty string, and is placed in the thread of M.
C13_OutboundFields ==
    JustSent =>
        LET m == LastSent
            out == reply_message.raw
            rule == RuleOf(account)
        IN  /\ out.from = account
            /\ account = Owner(m)
            /\ out.to = rule[4]
            /\ out.cc = (IF Len(rule) = 5 THEN ""
                         ELSE IF Len(rule) = 6 THEN rule[6]
                         ELSE rule[6] \o "," \o rule[7])
            /\ out.InReplyTo = m
            /\ out.References = m
            /\ out.subject = ExpectedSubject(m)
            /\ reply_message.threadId = ThreadOf(m)

\* the message without a Subject header, in a thread of two, was sent with
\* both copy addresses
C13_Witness ==
    /\ JustSent /\ LastSent = "m2"
    /\ reply_message.raw.subject = ""
    /\ reply_message.raw.cc = "a@example.com,b@example.com"
    /\ reply_message.raw.InReplyTo = "m2"
    /\ reply_message.threadId = "t1"


(***************************************************************************)
(* C14                                                                     *)
(***************************************************************************)
RECURSIVE Flatten(_, _)
Flatten(seqs, i) == IF i > Len(seqs) THEN <<>> ELSE seqs[i] \o Flatten(seqs, i + 1)

IsPrefix(s, t) == Len(s) <= Len(t) /\ SubSeq(t, 1, Len(s)) = s

\* the attachment ids a complete walk of src has to ask for, in walk order:
\* one per part that is not text, has a filename and has no inline data
RECURSIVE FetchIds(_)
FetchIds(src) ==
    IF src.mime_type = "text" THEN <<>>
    ELSE IF src.filename # ""
         THEN IF src.hasData THEN <<>> ELSE <<src.attachmentId>>
    ELSE Flatten([i \in 1..Len(src.parts) |-> FetchIds(src.parts[i])], 1)

\* the branch each part of src took, read off the object built for it
RECURSIVE BranchByPriority(_, _)
BranchByPriority(src, built) ==
    IF src.mime_type = "text"
    THEN built.cls = "MIMEText"
    ELSE IF src.filename # ""
    THEN /\ built.cls = "MIMEBase"
         /\ built.filename = src.filename
         /\ built.children = <<>>
    ELSE /\ built.cls = "MIMEBase"
         /\ built.filename = ""
         /\ Len(built.children) = Len(src.parts)
         /\ \A i \in 1..Len(src.parts) :
                BranchByPriority(src.parts[i], built.children[i])

\* C14: every part is classified text first, then attachment by filename,
\* then container; an attachment asks for its data exactly when the body has
\* no inline data, and then once.
C14_BranchPriorityAndSingleFetch ==
    parsed # NoParse =>
        IF parsed.exc = "none"
        THEN /\ BranchByPriority(parsed.message, parsed.part)
             /\ parsed.gets = FetchIds(parsed.message)
        ELSE /\ IsPrefix(parsed.gets, FetchIds(parsed.message))
             /\ parsed.exc = "HttpError" => parsed.gets # <<>>

\* a walk over a named text part, a named part with children and two
\* attachments without inline data
C14_Witness ==
    /\ parsed.message = Payloads.deep
    /\ parsed.exc = "none"
    /\ parsed.gets = <<"att-r.pdf", "att-p.png">>
    /\ parsed.part.children[3].filename = "a.zip"
    /\ mstat["m1"] = "sent"

(***************************************************************************)
(* C15                                                                     *)
(***************************************************************************)
\* what the senders wrote: texts as code points, attachments as bytes
Texts == {<<104, 101, 108, 108, 111>>, <<233>>}

ByteStrings == {<<0, 1, 2>>, <<255>>}

RECURSIVE utf8_encode_from(_, _)
utf8_encode_from(text, i) ==
    IF i > Len(text) THEN <<>>
    ELSE (IF text[i] < 128 THEN <<text[i]>>
          ELSE <<192 + (text[i] \div 64), 128 + (text[i] % 64)>>)
         \o utf8_encode_from(text, i + 1)

utf8_encode(text) == utf8_encode_from(text, 1)

urlsafe_b64encode(b) ==
    CASE b = <<104, 101, 108, 108, 111>> -> "aGVsbG8="
      [] b = <<255>>                     -> "_w=="
      [] b = <<195, 169>>                -> "w6k="
      [] b = <<0, 1, 2>>                 -> "AAEC"
      [] OTHER                           -> "?"

\* built is the reconstruction of src: same type, same children in the same
\* order at every depth, and every leaf carries what its sender wrote
RECURSIVE Preserved(_, _)
Preserved(src, built) ==
    /\ built.maintype = src.mime_type
    /\ built.subtype = src.mime_subtype
    /\ IF src.mime_type = "text"
       THEN \E t \in Texts :
              /\ urlsafe_b64encode(utf8_encode(t)) = src.data
              /\ built.payload = t
       ELSE IF src.filename # ""
       THEN \E b \in ByteStrings :
              /\ urlsafe_b64encode(b) =
                    (IF src.hasData THEN src.data ELSE src.remoteData)
              /\ built.payload = b
              /\ built.filename = src.filename
       ELSE /\ Len(built.children) = Len(src.parts)
            /\ \A i \in 1..Len(src.parts) :
                   Preserved(src.parts[i], built.children[i])

\* C15: the reconstruction of a body has, for every container of the source,
\* one reconstructed child per source child in the same order at every
\* depth, and each leaf decodes back to its original text or bytes.
C15_ShapeAndContentPreserved ==
    (parsed # NoParse /\ parsed.exc = "none") =>
        Preserved(parsed.message, parsed.part)

\* the nested body was rebuilt with its four children, the inner container
\* with its two texts, the second one outside ASCII
C15_Witness ==
    /\ parsed.message = Payloads.deep
    /\ parsed.exc = "none"
    /\ Len(parsed.part.children) = 4
    /\ parsed.part.children[2].children[2].payload = <<233>>
    /\ parsed.part.children[4].payload = <<255>>


(***************************************************************************)
(* C16                                                                     *)
(***************************************************************************)
\* the time lies after the cutoff window of the day the process started on
WindowOver(t) == t >= 1440

\* C16: once the time falls within the cutoff window the scheduler leaves
\* Running for Stopped, whatever the cycles of a tick take: no tick begins
\* when the window of the day is over.
C16_StoppedByEndOfWindow == TickInProgress => ~WindowOver(dtime)


(***************************************************************************)
(* C18                                                                     *)
(***************************************************************************)
\* the batch of lines 143-148 was handed to the service
ModifyIssued == modifyState \in {"ok", "failed"}

\* C18: the batch-modify of a cycle, when issued, carries exactly the ids of
\* the messages whose send succeeded in that cycle, and it is issued only
\* when no listing, batch-fetch, attachment-fetch or send call raised an
\* HttpError earlier in the cycle.
C18_AckAllOrNothing ==
    ModifyIssued =>
        /\ ModifyIds(processed_ids) = SentNow
        /\ \A m \in Msgs : mstat[m] \notin {"send_failed", "recon_failed"}
        /\ lastExc.exc = "HttpError" => lastExc.at = "batch_modify"

\* two messages were sent and both ids were in the batch
C18_Witness ==
    /\ modifyState = "ok"
    /\ SentNow = {"m1", "m2"}
    /\ Len(processed_ids) = 2

(***************************************************************************)
(* C19                                                                     *)
(***************************************************************************)
\* the send call has been made for m in the running cycle
SendCalled(m) == mstat[m] \in {"sent", "send_failed"}

\* a step that makes the send call for a message makes it for one that the
\* cycle listed and that still carries the unread label
C19_SendStep ==
    \A m \in Msgs :
        (~SendCalled(m) /\ SendCalled(m)') =>
            /\ m \in unread_email_ids
            /\ m \in unread[Owner(m)]

\* C19: every message a cycle sends was listed as unread at the start of
\* that cycle, so a message whose unread label a batch-modify has removed is
\* not forwarded by any later cycle.
C19_SentOnlyIfListedUnread ==
    /\ [](\A m \in Msgs : SendCalled(m) => m \in unread_email_ids)
    /\ [][C19_SendStep]_vars

\* a later cycle forwards m2 after the label of m1 was removed: m1 is not
\* listed and not taken up
C19_Witness ==
    /\ "m1" \notin unread["x"]
    /\ unread_email_ids = {"m2"}
    /\ mstat["m2"] = "sent"
    /\ mstat["m1"] = "none"

(***************************************************************************)
(* C20                                                                     *)
(***************************************************************************)
\* the cycle came to its end without a failure of a call made for the
\* whole mailbox
NoMailboxFailure == lastExc.at \notin CycleFatal

\* nothing done for m itself has failed in the cycle
OwnStepsOk(m) ==
    /\ m \in unread_email_ids
    /\ m \notin fetchFailed
    /\ mstat[m] \notin {"send_failed", "recon_failed"}

\* C20: no starvation between messages: a cycle that ends without a failure
\* of the mailbox-wide calls has forwarded every listed message whose own
\* steps did not fail, whatever happened to the other messages.
C20_NoStarvation ==
    (CycleEnded /\ NoMailboxFailure) =>
        \A m \in Msgs : OwnStepsOk(m) => mstat[m] = "sent"


(***************************************************************************)
(* C17                                                                     *)
(***************************************************************************)
\* an entry of the mapping whose account, to and cc addresses all validate
ValidEntry(e) ==
    /\ validate_email(e.account)
    /\ validate_email(e.to)
    /\ \A i \in 1..Len(e.cc) : validate_email(e.cc[i])

\* a file with the three markers in place
WellMarked(lines) ==
    /\ Len(lines) >= 5
    /\ lines[1] = "ACCOUNT" /\ lines[3] = "TO" /\ lines[5] = "CC"

\* C17: the loader drops every malformed entry: every entry of the mapping
\* parse() returns comes from a file with the right markers, and its
\* account, to and cc addresses all validate.
C17_MalformedEntriesDropped ==
    pc = "login" =>
        \A i \in 1..Len(email_lists) :
            /\ ValidEntry(email_lists[i])
            /\ \E j \in 1..Len(files) :
                  /\ WellMarked(files[j])
                  /\ files[j][2] = email_lists[i].account

====
